---- MODULE Spec2Model ----
(***************************************************************************)
(* Model of the AutoPapers pipeline scripts:                               *)
(*   auto_download_papers.py  (download stage)                             *)
(*   pdf2markdown.py          (conversion stage)                           *)
(*   call_llm_summaries.py    (summarize stage)                            *)
(*   push2cubox.py            (republish stage, priority selector, ledger) *)
(* Strings are sequences of one-character strings.                         *)
(***************************************************************************)
EXTENDS Naturals, Integers, Sequences, FiniteSets, TLC

VARIABLES
    stage,             \* which script is running
    \* ---- push2cubox.py
    content,           \* text of every .md file of SUMMARIES_FOLDER
    n,                 \* argument n of process_files / get_priority_files
    ledger,            \* PROCESSED_FILES_JSON on disk
    pubPc,             \* position inside process_files
    processed_files,   \* local processed_files of process_files
    priority_files,    \* local priority_files of process_files
    keyword_priority,  \* dict keyword_priority of get_priority_files
    pubIdx,            \* index of the for loop of process_files
    runs,              \* number of process_files runs started
    acked,             \* history: names whose POST answered 200 with code 200
    tried,             \* history: names handed to call_api in any run
    killed,            \* history: the process was killed during some run
    durable,           \* history: names persisted at the end of completed runs
    runSel,            \* history: priority_files of the latest run
    runTried,          \* history: names handed to call_api in the latest run
    runSaved,          \* history: the latest run finished save_processed_files
    debug,             \* argument debug of schedule_task
    schedPc,           \* position inside schedule_task
    launchRuns,        \* process_files runs started by this schedule_task call
    interrupted,       \* history: scheduler.start() raised KeyboardInterrupt/SystemExit
    startNames,        \* history: names found in the ledger at the start of runs
    runStart,          \* history: the ledger file when the latest run started
    runAcked,          \* history: names acknowledged in the latest run
    runEnd,            \* history: how the latest run ended
    \* sanitize_filename on its own
    title,             \* the argument
    sanitized,         \* sanitize_filename(title)
    again,             \* sanitize_filename(title), called once more
    twice,             \* sanitize_filename(sanitize_filename(title))
    sanPc,
    \* ---- auto_download_papers.py
    all_papers,        \* list all_papers of main
    single,            \* USE_SINGLE_THREAD
    pdfDir,            \* file names present in OUTPUT_DIR
    pdfAtStart,        \* history: OUTPUT_DIR when the batch started
    success_count,     \* global success_count
    failure_count,     \* global failure_count
    tpc,               \* position of each download_pdf call
    treg,              \* value loaded by each call for its += 1
    dlOutcome,         \* history: what each call did
    dlGets,            \* history: number of requests.get per call
    pdfText,           \* what each file of OUTPUT_DIR holds
    dlOk,              \* history: file names completely written by this run
    mainPc,            \* position of main
    remote,            \* the records the catalog API holds for QUERY
    start_index,       \* local start_index of main
    inFlight,          \* catalog requests sent and not yet answered
    catLog,            \* history: catalog requests, answers and pauses
    dlOrder,           \* history: the papers in the order download_pdf began, 0 for a sleep
    \* ---- pdf2markdown.py
    pdf_files,         \* list pdf_files of batch_convert_pdfs_to_md
    mdDir,             \* file names present in md_output_dir
    mdAtStart,         \* history: md_output_dir when the batch started
    cvPc,              \* position of each convert_pdf_to_md call
    attempt,           \* number of loop iterations begun by each call
    cvResult,          \* how each call ended
    cvLog,             \* history: outcome of each attempt of each call
    cvMain,            \* position of batch_convert_pdfs_to_md
    cvOrder,           \* history: the files in the order convert_pdf_to_md began
    \* ---- call_llm_summaries.py
    md_files,          \* list md_files of summarize_markdown_files
    sumDir,            \* file names present in output_folder
    sumAtStart,        \* history: output_folder when the batch started
    smIdx,             \* index of the for loop
    smInvoked,         \* history: files for which call_llm was called
    smOk,              \* history: files whose summary was completely written
    smPc,              \* position of summarize_markdown_files
    smOrder            \* history: the files in the order the loop took them

pubVars == <<content, n, ledger, pubPc, processed_files, priority_files,
             keyword_priority, pubIdx, runs, acked, tried, killed, durable,
             runSel, runTried, runSaved, debug, schedPc, launchRuns,
             interrupted, startNames, runStart, runAcked, runEnd>>
schedVars == <<debug, schedPc, launchRuns, interrupted>>
pgVars == <<remote, start_index, inFlight, catLog>>
dlVars == <<all_papers, single, pdfDir, pdfText, pdfAtStart, success_count,
            failure_count, tpc, treg, dlOutcome, dlGets, dlOk, mainPc,
            pgVars, dlOrder>>
cvVars == <<pdf_files, mdDir, mdAtStart, cvPc, attempt, cvResult, cvLog, cvMain,
           cvOrder>>
smVars == <<md_files, sumDir, sumAtStart, smIdx, smInvoked, smOk, smPc, smOrder>>
sanVars == <<title, sanitized, again, twice, sanPc>>
vars == <<stage, pubVars, dlVars, cvVars, smVars, sanVars>>

\* what a step of one script leaves alone: the other scripts
PubFrame == UNCHANGED <<stage, dlVars, cvVars, smVars, sanVars>>
DlFrame == UNCHANGED <<stage, pubVars, cvVars, smVars, sanVars>>
CvFrame == UNCHANGED <<stage, pubVars, dlVars, smVars, sanVars>>
SmFrame == UNCHANGED <<stage, pubVars, dlVars, cvVars, sanVars>>
SanFrame == UNCHANGED <<stage, pubVars, dlVars, cvVars, smVars>>

(***************************************************************************)
(* Bounds                                                                  *)
(***************************************************************************)
MaxContentLen == 2     \* longest summary text drawn for the selector
MaxN == 4              \* largest n handed to get_priority_files
MaxRuns == 3           \* process_files runs per behaviour
PoolSize == 2          \* worker threads of a ThreadPoolExecutor
NumPdfs == 4           \* PDF files in pdf_folder
PageSize == 2          \* records per catalog page
MaxTitleLen == 2       \* longest title handed to sanitize_filename on its own

(***************************************************************************)
(* Generic helpers                                                         *)
(***************************************************************************)
Range(s) == {s[i] : i \in 1..Len(s)}

Min(a, b) == IF a < b THEN a ELSE b

\* all sequences over S of length at most k
RECURSIVE SeqsUpTo(_, _)
SeqsUpTo(S, k) ==
    IF k = 0 THEN {<<>>}
    ELSE LET shorter == SeqsUpTo(S, k - 1)
         IN shorter \cup {Append(s, c) : s \in shorter, c \in S}

\* the sub-list of s made of the positions in keep, in the order of s
RECURSIVE SubList(_, _, _)
SubList(s, keep, i) ==
    IF i > Len(s) THEN <<>>
    ELSE (IF i \in keep THEN <<s[i]>> ELSE <<>>) \o SubList(s, keep, i + 1)

(***************************************************************************)
(* push2cubox.py : the priority selector                                   *)
(***************************************************************************)
\* os.listdir(SUMMARIES_FOLDER) filtered on ".md", in listing order
SummaryFiles == <<"f1.md", "f2.md", "f3.md">>

Files == Range(SummaryFiles)

Chars == {"a", "b", "B"}

Contents == SeqsUpTo(Chars, MaxContentLen)

\* KEYWORDS, over the model alphabet: "ab", "B", "ba"
KEYWORDS == << <<"a", "b">>, <<"B">>, <<"b", "a">> >>

\* str.lower on one character
LowerChar(c) == IF c = "A" THEN "a" ELSE IF c = "B" THEN "b" ELSE c

\* str.lower
Lower(s) == [i \in 1..Len(s) |-> LowerChar(s[i])]

\* Python's  needle in hay  on strings
StrIn(needle, hay) ==
    \E p \in 0..(Len(hay) - Len(needle)) :
        SubSeq(hay, p + 1, p + Len(needle)) = needle

\* the test of line 64 without .lower() on the content
KeywordMatchesCaseSensitive(keyword, text) == StrIn(Lower(keyword), text)

\* the test of line 64
KeywordMatches(keyword, text) == StrIn(Lower(keyword), Lower(text))

\* the inner for loop, lines 63-65: one increment per matching keyword
RECURSIVE ScoreLoop(_, _, _, _)
ScoreLoop(text, keywords, i, acc) ==
    IF i > Len(keywords) THEN acc
    ELSE ScoreLoop(text, keywords, i + 1,
                   IF KeywordMatches(keywords[i], text) THEN acc + 1 ELSE acc)

\* the dict built by lines 58-65
KeywordPriority(unprocessed, texts, keywords) ==
    [f \in Range(unprocessed) |-> ScoreLoop(texts[f], keywords, 1, 0)]

\* insertion that puts x before the elements of equal key
InsertDescBeforeTies(x, sorted, key) ==
    LET k == Cardinality({i \in 1..Len(sorted) : key[sorted[i]] > key[x]})
    IN SubSeq(sorted, 1, k) \o <<x>> \o SubSeq(sorted, k + 1, Len(sorted))

\* insertion into a list sorted by descending key, after the elements of
\* equal key (stability of sorted(..., reverse=True))
InsertDesc(x, sorted, key) ==
    LET k == Cardinality({i \in 1..Len(sorted) : key[sorted[i]] >= key[x]})
    IN SubSeq(sorted, 1, k) \o <<x>> \o SubSeq(sorted, k + 1, Len(sorted))

\* sorted(unprocessed_files, key=..., reverse=True), line 68
RECURSIVE SortedDesc(_, _, _)
SortedDesc(list, key, i) ==
    IF i = 0 THEN <<>>
    ELSE InsertDesc(list[i], SortedDesc(list, key, i - 1), key)

\* the slice  sorted_files[:k]  for k >= 0, line 73
Take(list, k) == SubSeq(list, 1, Min(k, Len(list)))

\* the listing without the filter of line 51
UnprocessedAll(listing, processed) == listing

\* lines 50-51
Unprocessed(listing, processed) ==
    SubList(listing, {i \in 1..Len(listing) : listing[i] \notin processed}, 1)

\* get_priority_files(folder, processed_files, n, keywords)
get_priority_files(listing, texts, processed, k, keywords) ==
    LET unprocessed_files == Unprocessed(listing, processed)
        prio == KeywordPriority(unprocessed_files, texts, keywords)
    IN IF Len(unprocessed_files) = 0 THEN <<>>
       ELSE Take(SortedDesc(unprocessed_files, prio, Len(unprocessed_files)), k)

(***************************************************************************)
(* push2cubox.py : the ledger and process_files                            *)
(***************************************************************************)
\* list(processed_files): the elements of a set, each once, in an order
\* that depends on the hash seed of the run; every order is possible
ListsOf(S) == {l \in [1..Cardinality(S) -> S] : Range(l) = S}

\* PROCESSED_FILES_JSON does not exist
NoLedger == [exists |-> FALSE, valid |-> TRUE, data |-> <<>>]

\* the file right after open(PROCESSED_FILES_JSON, "w"): empty, not JSON
TruncatedLedger == [exists |-> TRUE, valid |-> FALSE, data |-> <<>>]

\* the file after json.dump(names, f) and close, names being a list
DumpedLedger(names) == [exists |-> TRUE, valid |-> TRUE, data |-> names]

\* json.load raises on a file that is not a JSON document
LoadRaises(file) == file.exists /\ ~file.valid

\* load_processed_files(): set(json.load(f)), or set() without a file
load_processed_files(file) == IF file.exists THEN Range(file.data) ELSE {}

\* what requests.post / response.json can give call_api
Responses ==
    {[raises |-> FALSE, status |-> st, code |-> c] : st \in {200, 500}, c \in {200, 400}}
    \cup {[raises |-> TRUE, status |-> 0, code |-> 0]}

\* the test of line 113 with "or" in place of "and"
call_api_either(resp) ==
    IF resp.raises THEN FALSE
    ELSE resp.status = 200 \/ resp.code = 200

\* an except branch that reports success
call_api_true_on_error(resp) ==
    IF resp.raises THEN TRUE
    ELSE resp.status = 200 /\ resp.code = 200

\* call_api lines 109-121, once the file has been read: the returned bool
call_api(resp) ==
    IF resp.raises THEN FALSE
    ELSE resp.status = 200 /\ resp.code = 200

\* a scheduler that also runs the job when it is set up
MayStartRunAtStartup == schedPc \in {"init", "blocked"}

\* schedule_task calls process_files at line 169 in debug mode; in scheduled
\* mode only the cron job of line 174 does, while scheduler.start() blocks
MayStartRun ==
    \/ debug /\ schedPc = "init"
    \/ ~debug /\ schedPc = "blocked"

\* where schedule_task is when process_files ends: line 169 was the last
\* statement in debug mode, the scheduler goes on in scheduled mode
AfterProcessFiles == IF debug THEN "returned" ELSE schedPc

\* process_files lines 133-140: load the ledger, select, return if nothing
PubStart ==
    /\ stage = "republish"
    /\ PubFrame
    /\ pubPc = "idle"
    /\ MayStartRun
    /\ runs < MaxRuns
    /\ runs' = runs + 1
    /\ launchRuns' = launchRuns + 1
    /\ runTried' = {}
    /\ runSaved' = FALSE
    /\ runAcked' = {}
    /\ runStart' = ledger
    /\ UNCHANGED <<debug, interrupted>>
    /\ IF LoadRaises(ledger)
       THEN /\ runSel' = <<>>
            /\ runEnd' = "raised"
            /\ schedPc' = AfterProcessFiles
            /\ UNCHANGED <<pubPc, processed_files, priority_files,
                           keyword_priority, pubIdx, startNames>>
       ELSE LET loaded == load_processed_files(ledger)
                unprocessed == Unprocessed(SummaryFiles, loaded)
                chosen == get_priority_files(SummaryFiles, content, loaded, n, KEYWORDS)
            IN /\ processed_files' = loaded
               /\ priority_files' = chosen
               /\ keyword_priority' = KeywordPriority(unprocessed, content, KEYWORDS)
               /\ runSel' = chosen
               /\ pubIdx' = 1
               /\ pubPc' = IF chosen = <<>> THEN "idle" ELSE "loop"
               /\ startNames' = startNames \cup loaded
               /\ runEnd' = IF chosen = <<>> THEN "returned" ELSE "running"
               /\ schedPc' = IF chosen = <<>> THEN AfterProcessFiles
                              ELSE IF debug THEN "running" ELSE schedPc
    /\ UNCHANGED <<content, n, ledger, acked, tried, killed, durable>>

\* one iteration of the for loop, lines 143-151, for a file that call_api
\* can read (line 88) and the response resp
PubItem(resp) ==
    /\ stage = "republish"
    /\ PubFrame
    /\ pubPc = "loop"
    /\ LET file_name == priority_files[pubIdx]
           success == call_api(resp)
       IN /\ processed_files' = IF success THEN processed_files \cup {file_name}
                                ELSE processed_files
          /\ acked' = IF ~resp.raises /\ resp.status = 200 /\ resp.code = 200
                      THEN acked \cup {file_name} ELSE acked
          /\ runAcked' = IF ~resp.raises /\ resp.status = 200 /\ resp.code = 200
                         THEN runAcked \cup {file_name} ELSE runAcked
          /\ tried' = tried \cup {file_name}
          /\ runTried' = runTried \cup {file_name}
    /\ UNCHANGED <<schedVars, startNames, runStart, runEnd>>
    /\ pubIdx' = pubIdx + 1
    /\ pubPc' = IF pubIdx = Len(priority_files) THEN "save" ELSE "loop"
    /\ UNCHANGED <<content, n, ledger, priority_files, keyword_priority, runs,
                   killed, durable, runSel, runSaved>>

\* an iteration in which open(file_path) of call_api line 88 raises: the
\* exception is outside the try of call_api and leaves process_files
PubItemReadRaises ==
    /\ stage = "republish"
    /\ PubFrame
    /\ pubPc = "loop"
    /\ tried' = tried \cup {priority_files[pubIdx]}
    /\ runTried' = runTried \cup {priority_files[pubIdx]}
    /\ pubPc' = "idle"
    /\ runEnd' = "raised"
    /\ schedPc' = AfterProcessFiles
    /\ UNCHANGED <<debug, launchRuns, interrupted, startNames, runStart, runAcked>>
    /\ UNCHANGED <<content, n, ledger, processed_files, priority_files,
                   keyword_priority, pubIdx, runs, acked, killed, durable,
                   runSel, runSaved>>

\* save_processed_files line 32: open(..., "w") truncates the file
PubSaveOpen ==
    /\ stage = "republish"
    /\ PubFrame
    /\ pubPc = "save"
    /\ ledger' = TruncatedLedger
    /\ pubPc' = "dump"
    /\ UNCHANGED <<schedVars, startNames, runStart, runAcked, runEnd>>
    /\ UNCHANGED <<content, n, processed_files, priority_files, keyword_priority,
                   pubIdx, runs, acked, tried, killed, durable, runSel,
                   runTried, runSaved>>

\* save_processed_files line 33 and the close of the with block, then
\* line 155
PubSaveDump ==
    /\ stage = "republish"
    /\ PubFrame
    /\ pubPc = "dump"
    /\ \E names \in ListsOf(processed_files) : ledger' = DumpedLedger(names)
    /\ durable' = durable \cup processed_files
    /\ runSaved' = TRUE
    /\ pubPc' = "idle"
    /\ runEnd' = "returned"
    /\ schedPc' = AfterProcessFiles
    /\ UNCHANGED <<debug, launchRuns, interrupted, startNames, runStart, runAcked>>
    /\ UNCHANGED <<content, n, processed_files, priority_files, keyword_priority,
                   pubIdx, runs, acked, tried, killed, runSel, runTried>>

\* the process is killed during a run, between load_processed_files and the
\* end of save_processed_files
PubKill ==
    /\ stage = "republish"
    /\ PubFrame
    /\ pubPc \in {"loop", "save", "dump"}
    /\ killed' = TRUE
    /\ pubPc' = "idle"
    /\ runEnd' = "killed"
    /\ schedPc' = "dead"
    /\ UNCHANGED <<debug, launchRuns, interrupted, startNames, runStart, runAcked>>
    /\ UNCHANGED <<content, n, ledger, processed_files, priority_files,
                   keyword_priority, pubIdx, runs, acked, tried, durable,
                   runSel, runTried, runSaved>>

\* what the steps of schedule_task itself leave alone
RunFrame ==
    UNCHANGED <<content, n, ledger, pubPc, processed_files, priority_files,
                keyword_priority, pubIdx, runs, acked, tried, killed, durable,
                runSel, runTried, runSaved, startNames, runStart, runAcked, runEnd>>

\* schedule_task lines 171-178 in scheduled mode: the job is added and
\* scheduler.start() blocks
SchedStart ==
    /\ stage = "republish"
    /\ PubFrame
    /\ ~debug
    /\ schedPc = "init"
    /\ schedPc' = "blocked"
    /\ UNCHANGED <<debug, launchRuns, interrupted>>
    /\ RunFrame

\* lines 179-180: scheduler.start() raises KeyboardInterrupt or SystemExit,
\* schedule_task prints and returns
SchedInterrupt ==
    /\ stage = "republish"
    /\ PubFrame
    /\ ~debug
    /\ schedPc = "blocked"
    /\ schedPc' = "returned"
    /\ interrupted' = TRUE
    /\ UNCHANGED <<debug, launchRuns>>
    /\ RunFrame

\* the script is started again after it returned or was killed
Relaunch ==
    /\ stage = "republish"
    /\ PubFrame
    /\ schedPc \in {"returned", "dead"}
    /\ pubPc = "idle"
    /\ runs < MaxRuns
    /\ schedPc' = "init"
    /\ launchRuns' = 0
    /\ interrupted' = FALSE
    /\ UNCHANGED debug
    /\ RunFrame

\* summary texts of the republish runs
PubContents == {<<>>, <<"b">>, <<"a", "B">>}

PubHistoryInit ==
    /\ acked = {}
    /\ tried = {}
    /\ killed = FALSE
    /\ durable = {}
    /\ runSel = <<>>
    /\ runTried = {}
    /\ runSaved = FALSE
    /\ schedPc = "init"
    /\ launchRuns = 0
    /\ interrupted = FALSE
    /\ startNames = {}
    /\ runStart = NoLedger
    /\ runAcked = {}
    /\ runEnd = "none"

PubInit ==
    /\ debug \in BOOLEAN
    /\ content \in [Files -> PubContents]
    /\ n \in 0..MaxN
    /\ ledger = NoLedger
    /\ pubPc = "idle"
    /\ processed_files = {}
    /\ priority_files = <<>>
    /\ keyword_priority = <<>>
    /\ pubIdx = 1
    /\ runs = 0
    /\ PubHistoryInit

\* the republish script is not the one running
PubOff ==
    /\ debug = FALSE
    /\ content = [f \in Files |-> <<>>]
    /\ n = 0
    /\ ledger = NoLedger
    /\ pubPc = "idle"
    /\ processed_files = {}
    /\ priority_files = <<>>
    /\ keyword_priority = <<>>
    /\ pubIdx = 1
    /\ runs = 0
    /\ PubHistoryInit

(***************************************************************************)
(* The selector on its own: get_priority_files applied to drawn inputs     *)
(***************************************************************************)
SelApply ==
    /\ stage = "select"
    /\ pubPc = "idle"
    /\ priority_files' = get_priority_files(SummaryFiles, content, processed_files,
                                            n, KEYWORDS)
    /\ keyword_priority' = KeywordPriority(Unprocessed(SummaryFiles, processed_files),
                                           content, KEYWORDS)
    /\ pubPc' = "selected"
    /\ UNCHANGED <<stage, content, n, ledger, processed_files, pubIdx, runs,
                   acked, tried, killed, durable, runSel, runTried, runSaved,
                   schedVars, startNames, runStart, runAcked, runEnd>>
    /\ UNCHANGED <<dlVars, cvVars, smVars, sanVars>>

\* a processed file is never opened by the selector: its text is left empty
SelInputs ==
    /\ debug = FALSE
    /\ processed_files \in SUBSET Files
    /\ content \in [Files -> Contents]
    /\ \A f \in processed_files : content[f] = <<>>
    /\ n \in 0..MaxN
    /\ ledger = NoLedger
    /\ pubPc = "idle"
    /\ priority_files = <<>>
    /\ keyword_priority = <<>>
    /\ pubIdx = 1
    /\ runs = 0
    /\ PubHistoryInit

(***************************************************************************)
(* auto_download_papers.py                                                 *)
(***************************************************************************)
THREAD_COUNT == PoolSize

ConfType == "Conference and Workshop Papers"

\* records of the catalog, as download_pdf reads them (info.title,
\* info.type, info.ee)
\* links are strings, written character by character
Https == <<"h", "t", "t", "p", "s", ":", "/", "/">>

\* the literal of line 71
OpenReview == <<"o", "p", "e", "n", "r", "e", "v", "i", "e", "w", ".", "n", "e", "t">>

\* a host that holds the literal of line 71 and is another host
OtherHost == OpenReview \o <<".", "e", "v", "i", "l", ".", "o", "r", "g">>

Doi == <<"d", "o", "i", ".", "o", "r", "g">>

ForumId(id) == <<"/", "f", "o", "r", "u", "m", "?", "i", "d", "=", id>>

Catalog ==
    << [title |-> <<"a", "/">>, type |-> ConfType, ee |-> Https \o OpenReview \o ForumId("1")],
       [title |-> <<"a", ":">>, type |-> ConfType, ee |-> Https \o OpenReview \o ForumId("2")],
       [title |-> <<"b">>, type |-> ConfType,
        ee |-> <<"U+000B">> \o Https \o OpenReview \o ForumId("3")],
       [title |-> <<"c">>, type |-> "Journal Articles", ee |-> Https \o OpenReview \o ForumId("4")],
       [title |-> <<"d">>, type |-> ConfType, ee |-> Https \o Doi \o <<"/", "5">>],
       [title |-> <<"e">>, type |-> ConfType, ee |-> <<>>],
       [title |-> <<"f">>, type |-> ConfType, ee |-> Https \o OtherHost \o ForumId("7")],
       [title |-> <<"g">>, type |-> ConfType, ee |-> Https \o <<"[">> \o Doi \o <<"/", "8">>] >>

\* the class written without escaping the backslash
SpecialCharsNoBackslash == {"/", "*", "?", ":", "\"", "<", ">", "|"}

\* the characters of the class [\\/*?:"<>|]
SpecialChars == {"\\", "/", "*", "?", ":", "\"", "<", ">", "|"}

\* sanitize_filename: re.sub(r'[\\/*?:"<>|]', "_", filename)
sanitize_filename(filename) ==
    [i \in 1..Len(filename) |-> IF filename[i] \in SpecialChars THEN "_" ELSE filename[i]]

Letters ==
    {"a", "b", "c", "d", "e", "f", "g", "h", "i", "j", "k", "l", "m",
     "n", "o", "p", "q", "r", "s", "t", "u", "v", "w", "x", "y", "z",
     "A", "B", "C", "D", "E", "F", "G", "H", "I", "J", "K", "L", "M",
     "N", "O", "P", "Q", "R", "S", "T", "U", "V", "W", "X", "Y", "Z"}

Digits == {"0", "1", "2", "3", "4", "5", "6", "7", "8", "9"}

\* urllib.parse.scheme_chars
SchemeChars == Letters \cup Digits \cup {"+", "-", "."}

HexDigits == Digits \cup {"a", "b", "c", "d", "e", "f", "A", "B", "C", "D", "E", "F"}

\* s.find(c) counted from 1: the first position of c in s, 0 when absent
Find(s, c) ==
    LET at == {i \in 1..Len(s) : s[i] = c}
    IN IF at = {} THEN 0 ELSE CHOOSE i \in at : \A k \in at : i <= k

\* s.split(sep) for a separator of one character
RECURSIVE Split(_, _)
Split(s, sep) ==
    LET i == Find(s, sep)
    IN IF i = 0 THEN <<s>>
       ELSE <<SubSeq(s, 1, i - 1)>> \o Split(SubSeq(s, i + 1, Len(s)), sep)

\* _WHATWG_C0_CONTROL_OR_SPACE: the characters U+0000 to U+0020.  A
\* character that a string of this module cannot hold is written by the
\* name of its code point, "U+000B" for the vertical tab
C0ControlOrSpace ==
    {" ", "\t", "\n", "\f", "\r",
     "U+0000", "U+0001", "U+0002", "U+0003", "U+0004", "U+0005", "U+0006",
     "U+0007", "U+0008", "U+000B", "U+000E", "U+000F", "U+0010", "U+0011",
     "U+0012", "U+0013", "U+0014", "U+0015", "U+0016", "U+0017", "U+0018",
     "U+0019", "U+001A", "U+001B", "U+001C", "U+001D", "U+001E", "U+001F"}

\* the characters above U+007F whose NFKC normalization holds one of
\* / ? # @ : (Unicode 14)
NfkcUnsafe ==
    {"U+2047", "U+2048", "U+2049", "U+2100", "U+2101", "U+2105", "U+2106",
     "U+2A74", "U+FE13", "U+FE16", "U+FE55", "U+FE56", "U+FE5F", "U+FE6B",
     "U+FF03", "U+FF0F", "U+FF1A", "U+FF1F", "U+FF20"}

\* url.lstrip(_WHATWG_C0_CONTROL_OR_SPACE)
RECURSIVE LStrip(_)
LStrip(s) ==
    IF s # <<>> /\ s[1] \in C0ControlOrSpace THEN LStrip(Tail(s)) ELSE s

\* the removal of _UNSAFE_URL_BYTES_TO_REMOVE
RemoveUnsafe(s) == SelectSeq(s, LAMBDA c : c \notin {"\t", "\r", "\n"})

\* urlsplit: the text before the first ":" is taken off as the scheme when
\* it starts with a letter and holds only scheme_chars
AfterScheme(url) ==
    LET i == Find(url, ":")
    IN IF i > 1 /\ url[1] \in Letters /\ \A k \in 1..(i - 1) : url[k] \in SchemeChars
       THEN SubSeq(url, i + 1, Len(url))
       ELSE url

\* _splitnetloc(url, 2) when url[:2] == "//", else the empty netloc
RawNetloc(ee) ==
    LET url == AfterScheme(RemoveUnsafe(LStrip(ee)))
        ends == {i \in 3..Len(url) : url[i] \in {"/", "?", "#"}}
        stop == IF ends = {} THEN Len(url) + 1
                ELSE CHOOSE i \in ends : \A k \in ends : i <= k
    IN IF Len(url) >= 2 /\ url[1] = "/" /\ url[2] = "/"
       THEN SubSeq(url, 3, stop - 1)
       ELSE <<>>

\* the number written by a string of decimal digits
RECURSIVE DecValue(_)
DecValue(s) ==
    IF s = <<>> THEN 0
    ELSE 10 * DecValue(SubSeq(s, 1, Len(s) - 1))
         + (CHOOSE d \in 0..9 :
               <<"0", "1", "2", "3", "4", "5", "6", "7", "8", "9">>[d + 1] = s[Len(s)])

\* ipaddress.IPv4Address accepts the string
ValidIPv4(s) ==
    LET octets == Split(s, ".")
    IN /\ Len(octets) = 4
       /\ \A k \in 1..4 :
             /\ octets[k] # <<>>
             /\ \A i \in 1..Len(octets[k]) : octets[k][i] \in Digits
             /\ Len(octets[k]) <= 3
             /\ ~(Len(octets[k]) > 1 /\ octets[k][1] = "0")
             /\ DecValue(octets[k]) <= 255

ValidHextet(h) ==
    /\ h # <<>>
    /\ Len(h) <= 4
    /\ \A i \in 1..Len(h) : h[i] \in HexDigits

\* ipaddress.IPv6Address accepts the string
ValidIPv6(s) ==
    LET pct == Find(s, "%")
        addr == IF pct = 0 THEN s ELSE SubSeq(s, 1, pct - 1)
        scope == IF pct = 0 THEN <<>> ELSE SubSeq(s, pct + 1, Len(s))
        split == Split(addr, ":")
        dotted == Find(split[Len(split)], ".") # 0
        parts == IF dotted
                 THEN SubSeq(split, 1, Len(split) - 1) \o << <<"0">>, <<"0">> >>
                 ELSE split
        skips == {i \in 2..(Len(parts) - 1) : parts[i] = <<>>}
        skip == CHOOSE i \in skips : TRUE
        hi == IF parts[1] = <<>> THEN skip - 2 ELSE skip - 1
        lo == IF parts[Len(parts)] = <<>> THEN Len(parts) - skip - 1
              ELSE Len(parts) - skip
    IN /\ s # <<>>
       /\ pct # 0 => (scope # <<>> /\ Find(scope, "%") = 0)
       /\ Len(split) >= 3
       /\ dotted => ValidIPv4(split[Len(split)])
       /\ Len(parts) <= 9
       /\ Cardinality(skips) <= 1
       /\ IF skips # {}
          THEN /\ parts[1] = <<>> => hi = 0
               /\ parts[Len(parts)] = <<>> => lo = 0
               /\ 8 - (hi + lo) >= 1
               /\ \A i \in 1..hi : ValidHextet(parts[i])
               /\ \A i \in (Len(parts) - lo + 1)..Len(parts) : ValidHextet(parts[i])
          ELSE /\ Len(parts) = 8
               /\ \A i \in 1..8 : ValidHextet(parts[i])

\* _check_bracketed_host(hostname) returns without raising
ValidBracketed(hostname) ==
    IF hostname # <<>> /\ hostname[1] = "v"
    THEN LET dot == Find(hostname, ".")
         IN /\ dot >= 3
            /\ \A i \in 2..(dot - 1) : hostname[i] \in HexDigits
            /\ Len(hostname) > dot
    ELSE ValidIPv6(hostname)

\* urlparse(ee) of line 70 raises ValueError: brackets that do not pair, a
\* bracketed host that is no IPv6 or IPvFuture address, or (_checknetloc) a
\* host with a character whose NFKC normalization holds one of / ? # @ :
UrlRaises(ee) ==
    LET netloc == RawNetloc(ee)
        open == Find(netloc, "[")
        close == Find(netloc, "]")
        after == SubSeq(netloc, open + 1, Len(netloc))
        end == Find(after, "]")
        bracketed_host == IF end = 0 THEN after ELSE SubSeq(after, 1, end - 1)
    IN \/ open # 0 /\ close = 0
       \/ close # 0 /\ open = 0
       \/ open # 0 /\ close # 0 /\ ~ValidBracketed(bracketed_host)
       \/ \E i \in 1..Len(netloc) : netloc[i] \in NfkcUnsafe

\* urlparse(ee).netloc, for a link that urlparse accepts
Netloc(ee) == IF UrlRaises(ee) THEN <<>> ELSE RawNetloc(ee)

\* lines 59-72 of download_pdf: "return" at line 67 or 72, "raise" when
\* urlparse raises (the except of line 95 counts a failure), else "pass";
\* line 71 tests whether the literal occurs somewhere in the host
Screen(paper) ==
    IF paper.type # ConfType \/ paper.ee = <<>> THEN "return"
    ELSE IF UrlRaises(paper.ee) THEN "raise"
    ELSE IF ~StrIn(OpenReview, Netloc(paper.ee)) THEN "return"
    ELSE "pass"

\* Screen for the records of Catalog, computed once
CatalogScreen == [k \in 1..Len(Catalog) |-> Screen(Catalog[k])]

\* Screen(paper), looked up for a record of Catalog
ScreenOf(paper) ==
    LET known == {k \in 1..Len(Catalog) : Catalog[k] = paper}
    IN IF known = {} THEN Screen(paper) ELSE CatalogScreen[CHOOSE k \in known : TRUE]

\* the record passes both early returns
Eligible(paper) == ScreenOf(paper) = "pass"

\* lines 76-77: the file name inside OUTPUT_DIR
PdfName(paper) == sanitize_filename(paper.title) \o <<".pdf">>

Tasks == 1..Len(all_papers)

\* a pool that lets one call more in than it has workers
PoolHasRoomOneMore(running, size) == Cardinality(running) <= size

\* ThreadPoolExecutor(max_workers=size) starts a submitted call only on a
\* worker that runs no other call (lines 141-145, pdf2markdown 92-98); the
\* loop of lines 132-136 is a pool of one, the main thread
PoolHasRoom(running, size) == Cardinality(running) < size

\* calls of download_pdf that have started and not returned
Running == {i \in Tasks : tpc[i] \notin {"queued", "done"}}

\* the number of download_pdf calls that can run at once: the main thread
\* alone, or the workers of ThreadPoolExecutor(max_workers=THREAD_COUNT)
Workers == IF single THEN 1 ELSE THREAD_COUNT

\* where a call of download_pdf goes when it returns: in single-threaded
\* mode main updates the progress bar and sleeps DOWNLOAD_INTERVAL (lines
\* 134-136) before the next paper
AfterReturn == IF single THEN "sleep" ELSE "done"

\* a worker of the pool takes the next submitted call from the executor's
\* queue (line 142 submits them in the order of all_papers); the call itself
\* begins later
DlTake(i) ==
    /\ stage = "download"
    /\ DlFrame
    /\ UNCHANGED <<pgVars, dlOrder>>
    /\ mainPc = "run"
    /\ ~single
    /\ i \in Tasks
    /\ tpc[i] = "queued"
    /\ \A j \in 1..(i - 1) : tpc[j] # "queued"
    /\ PoolHasRoom(Running, Workers)
    /\ tpc' = [tpc EXCEPT ![i] = "taken"]
    /\ UNCHANGED <<all_papers, single, pdfDir, pdfText, pdfAtStart, success_count,
                   failure_count, treg, dlOutcome, dlGets, dlOk, mainPc>>

\* download_pdf begins when main calls it for the next paper (line 133) or
\* when the worker that took it gets to run
MayBegin(i) ==
    IF single
    THEN /\ tpc[i] = "queued"
         /\ \A j \in 1..(i - 1) : tpc[j] # "queued"
         /\ PoolHasRoom(Running, Workers)
    ELSE tpc[i] = "taken"

\* download_pdf from line 59 up to the test of line 80
DlStart(i) ==
    /\ stage = "download"
    /\ DlFrame
    /\ UNCHANGED pgVars
    /\ mainPc = "run"
    /\ i \in Tasks
    /\ MayBegin(i)
    /\ CASE ScreenOf(all_papers[i]) = "return" ->
              /\ tpc' = [tpc EXCEPT ![i] = AfterReturn]
              /\ dlOutcome' = [dlOutcome EXCEPT ![i] = "ineligible"]
         [] ScreenOf(all_papers[i]) = "raise" ->
              /\ tpc' = [tpc EXCEPT ![i] = "f_load"]
              /\ dlOutcome' = [dlOutcome EXCEPT ![i] = "failed"]
         [] OTHER ->
              IF PdfName(all_papers[i]) \in pdfDir
              THEN /\ tpc' = [tpc EXCEPT ![i] = "s_load"]
                   /\ dlOutcome' = [dlOutcome EXCEPT ![i] = "skipped"]
              ELSE /\ tpc' = [tpc EXCEPT ![i] = "get"]
                   /\ UNCHANGED dlOutcome
    /\ dlOrder' = Append(dlOrder, i)
    /\ UNCHANGED <<all_papers, single, pdfDir, pdfText, pdfAtStart, success_count,
                   failure_count, treg, dlGets, dlOk, mainPc>>

\* line 85: requests.get is called and the thread waits for the answer
DlSend(i) ==
    /\ stage = "download"
    /\ DlFrame
    /\ UNCHANGED <<pgVars, dlOrder>>
    /\ i \in Tasks
    /\ tpc[i] = "get"
    /\ dlGets' = [dlGets EXCEPT ![i] = @ + 1]
    /\ tpc' = [tpc EXCEPT ![i] = "wait"]
    /\ UNCHANGED <<all_papers, single, pdfDir, pdfText, pdfAtStart, success_count,
                   failure_count, treg, dlOutcome, dlOk, mainPc>>

\* lines 85-86: requests.get returns or raises, raise_for_status
DlReceive(i, ok) ==
    /\ stage = "download"
    /\ DlFrame
    /\ UNCHANGED <<pgVars, dlOrder>>
    /\ i \in Tasks
    /\ tpc[i] = "wait"
    /\ IF ok
       THEN /\ tpc' = [tpc EXCEPT ![i] = "open"]
            /\ UNCHANGED dlOutcome
       ELSE /\ tpc' = [tpc EXCEPT ![i] = "f_load"]
            /\ dlOutcome' = [dlOutcome EXCEPT ![i] = "failed"]
    /\ UNCHANGED <<all_papers, single, pdfDir, pdfText, pdfAtStart, success_count,
                   failure_count, treg, dlGets, dlOk, mainPc>>

\* a file that open(filename, "wb") has just created or emptied
EmptyFile == [kind |-> "empty", by |-> 0]

\* a file that holds parts of what different writes put there
TornFile == [kind |-> "torn", by |-> 0]

\* a file that holds exactly the answer of the request for paper i
WholeFile(i) == [kind |-> "whole", by |-> i]

\* a folder with one file set to a content
WithFile(texts, f, text) ==
    [g \in (DOMAIN texts) \cup {f} |-> IF g = f THEN text ELSE texts[g]]

\* the files that hold exactly what one request of this run returned
WholeFiles(texts) == {f \in DOMAIN texts : texts[f].kind = "whole"}

\* line 89: open(filename, "wb") creates the file or empties it, or raises
DlOpen(i, ok) ==
    /\ stage = "download"
    /\ DlFrame
    /\ UNCHANGED <<pgVars, dlOrder>>
    /\ i \in Tasks
    /\ tpc[i] = "open"
    /\ LET filename == PdfName(all_papers[i])
       IN IF ok
          THEN /\ pdfDir' = pdfDir \cup {filename}
               /\ pdfText' = WithFile(pdfText, filename, EmptyFile)
               /\ dlOk' = WholeFiles(pdfText')
               /\ tpc' = [tpc EXCEPT ![i] = "write"]
               /\ UNCHANGED dlOutcome
          ELSE /\ UNCHANGED <<pdfDir, pdfText, dlOk>>
               /\ tpc' = [tpc EXCEPT ![i] = "f_load"]
               /\ dlOutcome' = [dlOutcome EXCEPT ![i] = "failed"]
    /\ UNCHANGED <<all_papers, single, pdfAtStart, success_count, failure_count,
                   treg, dlGets, mainPc>>

\* what the file can hold after thread i wrote its answer from offset 0 and
\* closed: the answer alone when the file was empty or held nothing longer,
\* else the answer followed by the tail of what another thread wrote
AfterWrite(text, i) ==
    IF text.kind = "empty" THEN {WholeFile(i)} ELSE {WholeFile(i), TornFile}

\* what the file can hold after a write that raised
AfterFailedWrite(text) == {text, TornFile}

\* line 90 and the end of the with block: f.write(response.content), close
DlWrite(i, ok) ==
    /\ stage = "download"
    /\ DlFrame
    /\ UNCHANGED <<pgVars, dlOrder>>
    /\ i \in Tasks
    /\ tpc[i] = "write"
    /\ LET filename == PdfName(all_papers[i])
       IN /\ \E text \in (IF ok THEN AfterWrite(pdfText[filename], i)
                          ELSE AfterFailedWrite(pdfText[filename])) :
                pdfText' = WithFile(pdfText, filename, text)
          /\ dlOk' = WholeFiles(pdfText')
    /\ IF ok
       THEN /\ tpc' = [tpc EXCEPT ![i] = "s_load"]
            /\ dlOutcome' = [dlOutcome EXCEPT ![i] = "downloaded"]
       ELSE /\ tpc' = [tpc EXCEPT ![i] = "f_load"]
            /\ dlOutcome' = [dlOutcome EXCEPT ![i] = "failed"]
    /\ UNCHANGED <<all_papers, single, pdfDir, pdfAtStart, success_count,
                   failure_count, treg, dlGets, mainPc>>

\* success_count += 1, lines 81 and 93: the load of the global
DlLoadSuccess(i) ==
    /\ stage = "download"
    /\ DlFrame
    /\ UNCHANGED <<pgVars, dlOrder>>
    /\ i \in Tasks
    /\ tpc[i] = "s_load"
    /\ treg' = [treg EXCEPT ![i] = success_count]
    /\ tpc' = [tpc EXCEPT ![i] = "s_store"]
    /\ UNCHANGED <<all_papers, single, pdfDir, pdfText, pdfAtStart, success_count,
                   failure_count, dlOutcome, dlGets, dlOk, mainPc>>

\* success_count += 1: the store of the incremented value, then return
DlStoreSuccess(i) ==
    /\ stage = "download"
    /\ DlFrame
    /\ UNCHANGED <<pgVars, dlOrder>>
    /\ i \in Tasks
    /\ tpc[i] = "s_store"
    /\ success_count' = treg[i] + 1
    /\ tpc' = [tpc EXCEPT ![i] = AfterReturn]
    /\ UNCHANGED <<all_papers, single, pdfDir, pdfText, pdfAtStart, failure_count, treg,
                   dlOutcome, dlGets, dlOk, mainPc>>

\* failure_count += 1, line 97: the load of the global
DlLoadFailure(i) ==
    /\ stage = "download"
    /\ DlFrame
    /\ UNCHANGED <<pgVars, dlOrder>>
    /\ i \in Tasks
    /\ tpc[i] = "f_load"
    /\ treg' = [treg EXCEPT ![i] = failure_count]
    /\ tpc' = [tpc EXCEPT ![i] = "f_store"]
    /\ UNCHANGED <<all_papers, single, pdfDir, pdfText, pdfAtStart, success_count,
                   failure_count, dlOutcome, dlGets, dlOk, mainPc>>

\* failure_count += 1: the store of the incremented value, then return
DlStoreFailure(i) ==
    /\ stage = "download"
    /\ DlFrame
    /\ UNCHANGED <<pgVars, dlOrder>>
    /\ i \in Tasks
    /\ tpc[i] = "f_store"
    /\ failure_count' = treg[i] + 1
    /\ tpc' = [tpc EXCEPT ![i] = AfterReturn]
    /\ UNCHANGED <<all_papers, single, pdfDir, pdfText, pdfAtStart, success_count, treg,
                   dlOutcome, dlGets, dlOk, mainPc>>

\* time.sleep(DOWNLOAD_INTERVAL), line 136, after a paper in single-threaded
\* mode
DlSleep(i) ==
    /\ stage = "download"
    /\ DlFrame
    /\ UNCHANGED pgVars
    /\ i \in Tasks
    /\ tpc[i] = "sleep"
    /\ dlOrder' = Append(dlOrder, 0)
    /\ tpc' = [tpc EXCEPT ![i] = "done"]
    /\ UNCHANGED <<all_papers, single, pdfDir, pdfText, pdfAtStart, success_count,
                   failure_count, treg, dlOutcome, dlGets, dlOk, mainPc>>

MAX_RESULTS == PageSize

\* fetch_papers(start_index): the hits of the page, [] when the request or
\* the decoding raised (lines 48-50) or when the offset is past the end
fetch_papers(records, start, ok) ==
    IF ~ok \/ start >= Len(records) THEN <<>>
    ELSE SubSeq(records, start + 1, Min(start + MAX_RESULTS, Len(records)))

\* the test of line 118 that also stops after a full page
PageIsLastOrFull(papers) == Len(papers) <= MAX_RESULTS

\* the test of line 118: the page is shorter than MAX_RESULTS
PageIsLast(papers) == Len(papers) < MAX_RESULTS

\* the loop going on after a full page without time.sleep
AfterPageNoPause(papers) == IF PageIsLast(papers) THEN "run" ELSE "fetch"

\* lines 118-122: break after a short page, else sleep API_CALL_INTERVAL
AfterPage(papers) == IF PageIsLast(papers) THEN "run" ELSE "pause"

\* line 110, first half: main sends the request for the page at start_index
FetchRequest ==
    /\ stage = "download"
    /\ DlFrame
    /\ mainPc = "fetch"
    /\ inFlight' = inFlight + 1
    /\ catLog' = Append(catLog, [ev |-> "request", off |-> start_index,
                                  ok |-> TRUE, items |-> <<>>])
    /\ mainPc' = "await"
    /\ UNCHANGED <<all_papers, single, pdfDir, pdfText, pdfAtStart, success_count,
                   failure_count, tpc, treg, dlOutcome, dlGets, dlOk,
                   remote, start_index, dlOrder>>

\* lines 110-119: fetch_papers returns and main handles the page
FetchResponse(ok) ==
    /\ stage = "download"
    /\ DlFrame
    /\ mainPc = "await"
    /\ inFlight' = inFlight - 1
    /\ LET papers == fetch_papers(remote, start_index, ok)
           fresh(v) == [k \in 1..Len(papers) |-> v]
       IN /\ catLog' = Append(catLog, [ev |-> "answer", off |-> start_index,
                                        ok |-> ok, items |-> papers])
          /\ IF papers = <<>>
             THEN /\ mainPc' = "run"
                  /\ UNCHANGED <<all_papers, start_index, tpc, treg, dlOutcome, dlGets>>
             ELSE /\ all_papers' = all_papers \o papers
                  /\ start_index' = start_index + MAX_RESULTS
                  /\ tpc' = tpc \o fresh("queued")
                  /\ treg' = treg \o fresh(0)
                  /\ dlOutcome' = dlOutcome \o fresh("none")
                  /\ dlGets' = dlGets \o fresh(0)
                  /\ mainPc' = AfterPage(papers)
    /\ UNCHANGED <<single, pdfDir, pdfText, pdfAtStart, success_count, failure_count,
                   dlOk, remote, dlOrder>>

\* time.sleep(API_CALL_INTERVAL), line 122, then the next iteration
FetchPause ==
    /\ stage = "download"
    /\ DlFrame
    /\ mainPc = "pause"
    /\ catLog' = Append(catLog, [ev |-> "pause", off |-> start_index,
                                  ok |-> TRUE, items |-> <<>>])
    /\ mainPc' = "fetch"
    /\ UNCHANGED <<all_papers, single, pdfDir, pdfText, pdfAtStart, success_count,
                   failure_count, tpc, treg, dlOutcome, dlGets, dlOk,
                   remote, start_index, inFlight, dlOrder>>

\* every call has returned: the pool is shut down, line 150 prints the totals
DlFinish ==
    /\ stage = "download"
    /\ DlFrame
    /\ UNCHANGED <<pgVars, dlOrder>>
    /\ mainPc = "run"
    /\ \A i \in Tasks : tpc[i] = "done"
    /\ mainPc' = "done"
    /\ UNCHANGED <<all_papers, single, pdfDir, pdfText, pdfAtStart, success_count,
                   failure_count, tpc, treg, dlOutcome, dlGets, dlOk>>

\* the file names the catalog can give
CatalogNames == {PdfName(Catalog[i]) : i \in 1..Len(Catalog)}

\* the longest catalog drawn from the records: one full page and a record
\* more
MaxCatalog == PageSize + 1

\* a catalog of two full pages, journal articles only
LongCatalog == [i \in 1..(2 * PageSize) |-> Catalog[4]]

DlInit ==
    /\ \/ \E keep \in SUBSET (1..Len(Catalog)) :
             /\ Cardinality(keep) <= MaxCatalog
             /\ remote = SubList(Catalog, keep, 1)
       \/ remote = LongCatalog
    /\ all_papers = <<>>
    /\ start_index = 0
    /\ inFlight = 0
    /\ catLog = <<>>
    /\ dlOrder = <<>>
    /\ single \in BOOLEAN
    /\ pdfDir \in SUBSET {PdfName(Catalog[i]) : i \in {1, 3}}
    /\ pdfText = [f \in pdfDir |-> [kind |-> "old", by |-> 0]]
    /\ pdfAtStart = pdfDir
    /\ success_count = 0
    /\ failure_count = 0
    /\ tpc = <<>>
    /\ treg = <<>>
    /\ dlOutcome = <<>>
    /\ dlGets = <<>>
    /\ dlOk = {}
    /\ mainPc = "fetch"

\* the download script is not the one running
DlOff ==
    /\ all_papers = <<>>
    /\ single = FALSE
    /\ pdfDir = {}
    /\ pdfText = [f \in {} |-> [kind |-> "old", by |-> 0]]
    /\ pdfAtStart = {}
    /\ success_count = 0
    /\ failure_count = 0
    /\ tpc = <<>>
    /\ treg = <<>>
    /\ dlOutcome = <<>>
    /\ dlGets = <<>>
    /\ dlOk = {}
    /\ mainPc = "off"
    /\ remote = <<>>
    /\ start_index = 0
    /\ inFlight = 0
    /\ catLog = <<>>
    /\ dlOrder = <<>>

(***************************************************************************)
(* pdf2markdown.py                                                         *)
(***************************************************************************)
max_retries == 3

max_workers == PoolSize

\* os.listdir(pdf_folder) filtered on ".pdf", without the extension
PdfListing == [i \in 1..NumPdfs |-> i]

\* a submission loop that leaves the last file out
CvTasksDropLast == 1..(Len(pdf_files) - 1)

\* the calls submitted by lines 95-98, one per file
CvTasks == 1..Len(pdf_files)

\* f"{name_without_suff}.md", line 56
MdName(pdf) == <<pdf, ".md">>

\* calls that a worker has taken and that have not returned
CvRunning == {i \in CvTasks : cvPc[i] \in {"taken", "running"}}

\* the loop test with one iteration too many
LoopContinuesOneMore(tries, budget) == tries <= budget

\* for attempt in range(max_retries), line 39: another iteration starts
LoopContinues(tries, budget) == tries < budget

\* line 59: a successful iteration returns, a failed one goes on (line 61)
AfterAttempt(ok) == IF ok THEN "done" ELSE "running"

\* a worker of the pool takes the next submitted call from the executor's
\* queue (lines 95-98 submit them in the order of the listing); the call
\* itself begins later
CvTake(i) ==
    /\ stage = "convert"
    /\ CvFrame
    /\ cvMain = "run"
    /\ i \in CvTasks
    /\ cvPc[i] = "queued"
    /\ \A j \in 1..(i - 1) : cvPc[j] # "queued"
    /\ PoolHasRoom(CvRunning, max_workers)
    /\ cvPc' = [cvPc EXCEPT ![i] = "taken"]
    /\ UNCHANGED <<pdf_files, mdDir, mdAtStart, attempt, cvResult, cvLog, cvMain,
                   cvOrder>>

\* the worker that took the call runs convert_pdf_to_md, lines 22-36; an
\* exception there (os.makedirs) ends the call and is caught by line 104
CvStart(i, prepOk) ==
    /\ stage = "convert"
    /\ CvFrame
    /\ cvMain = "run"
    /\ i \in CvTasks
    /\ cvPc[i] = "taken"
    /\ IF prepOk
       THEN /\ cvPc' = [cvPc EXCEPT ![i] = "running"]
            /\ UNCHANGED cvResult
       ELSE /\ cvPc' = [cvPc EXCEPT ![i] = "done"]
            /\ cvResult' = [cvResult EXCEPT ![i] = "raised"]
    /\ cvOrder' = Append(cvOrder, i)
    /\ UNCHANGED <<pdf_files, mdDir, mdAtStart, attempt, cvLog, cvMain>>

\* one iteration of the retry loop, lines 39-63
CvAttempt(i, ok) ==
    /\ stage = "convert"
    /\ CvFrame
    /\ i \in CvTasks
    /\ cvPc[i] = "running"
    /\ LoopContinues(attempt[i], max_retries)
    /\ attempt' = [attempt EXCEPT ![i] = @ + 1]
    /\ cvLog' = [cvLog EXCEPT ![i] = Append(@, ok)]
    /\ mdDir' = IF ok THEN mdDir \cup {MdName(pdf_files[i])} ELSE mdDir
    /\ cvPc' = [cvPc EXCEPT ![i] = AfterAttempt(ok)]
    /\ cvResult' = [cvResult EXCEPT ![i] = IF AfterAttempt(ok) = "done"
                                           THEN "success" ELSE @]
    /\ UNCHANGED <<pdf_files, mdAtStart, cvMain, cvOrder>>

\* the loop is exhausted: line 66 reports the failure and the call returns
CvGiveUp(i) ==
    /\ stage = "convert"
    /\ CvFrame
    /\ i \in CvTasks
    /\ cvPc[i] = "running"
    /\ ~LoopContinues(attempt[i], max_retries)
    /\ cvPc' = [cvPc EXCEPT ![i] = "done"]
    /\ cvResult' = [cvResult EXCEPT ![i] = "failure"]
    /\ UNCHANGED <<pdf_files, mdDir, mdAtStart, attempt, cvLog, cvMain, cvOrder>>

\* lines 88-90 (no PDF file) or lines 100-107 (every future completed)
CvFinish ==
    /\ stage = "convert"
    /\ CvFrame
    /\ cvMain = "run"
    /\ \A i \in CvTasks : cvPc[i] = "done"
    /\ cvMain' = "done"
    /\ UNCHANGED <<pdf_files, mdDir, mdAtStart, cvPc, attempt, cvResult, cvLog,
                   cvOrder>>

CvInit ==
    /\ \E k \in 0..NumPdfs : pdf_files = SubSeq(PdfListing, 1, k)
    /\ mdDir \in SUBSET {MdName(PdfListing[i]) : i \in 1..NumPdfs}
    /\ mdAtStart = mdDir
    /\ cvPc = [i \in 1..Len(pdf_files) |-> "queued"]
    /\ attempt = [i \in 1..Len(pdf_files) |-> 0]
    /\ cvResult = [i \in 1..Len(pdf_files) |-> "none"]
    /\ cvLog = [i \in 1..Len(pdf_files) |-> <<>>]
    /\ cvMain = "run"
    /\ cvOrder = <<>>

\* the conversion script is not the one running
CvOff ==
    /\ pdf_files = <<>>
    /\ mdDir = {}
    /\ mdAtStart = {}
    /\ cvPc = <<>>
    /\ attempt = <<>>
    /\ cvResult = <<>>
    /\ cvLog = <<>>
    /\ cvMain = "off"
    /\ cvOrder = <<>>

(***************************************************************************)
(* call_llm_summaries.py                                                   *)
(***************************************************************************)
\* os.listdir(md_folder) filtered on ".md"
MdListing == <<"m1.md", "m2.md", "m3.md">>

\* what lines 122-159 can do for one file: the read of line 124 raises,
\* call_llm returns None (it caught an exception) or "", open of line 144
\* raises, a write of lines 145-152 raises, or the summary is saved
SmResults == {"read_raises", "llm_none", "llm_empty", "ok", "open_raises", "write_raises"}

\* call_llm ran: everything but a failed read
LlmCalled(res) == res # "read_raises"

\* the value of summary after line 140
SummaryOf(res) ==
    IF res \in {"read_raises", "llm_none"} THEN "None"
    ELSE IF res = "llm_empty" THEN "" ELSE "text"

\* the test  if summary:  of line 142
Truthy(summary) == summary # "None" /\ summary # ""

\* one iteration of the for loop, lines 113-159
SmItem(res) ==
    /\ stage = "summarize"
    /\ SmFrame
    /\ smPc = "run"
    /\ smIdx <= Len(md_files)
    /\ LET md_file == md_files[smIdx]
       IN IF md_file \in sumDir
          THEN UNCHANGED <<sumDir, smInvoked, smOk>>
          ELSE /\ smInvoked' = IF LlmCalled(res) THEN smInvoked \cup {md_file}
                               ELSE smInvoked
               /\ sumDir' = IF LlmCalled(res) /\ Truthy(SummaryOf(res))
                               /\ res # "open_raises"
                            THEN sumDir \cup {md_file} ELSE sumDir
               /\ smOk' = IF res = "ok" THEN smOk \cup {md_file} ELSE smOk
    /\ smIdx' = smIdx + 1
    /\ smOrder' = Append(smOrder, md_files[smIdx])
    /\ UNCHANGED <<md_files, sumAtStart, smPc>>

\* lines 108-110 (no file) or line 161
SmFinish ==
    /\ stage = "summarize"
    /\ SmFrame
    /\ smPc = "run"
    /\ smIdx > Len(md_files)
    /\ smPc' = "done"
    /\ UNCHANGED <<md_files, sumDir, sumAtStart, smIdx, smInvoked, smOk, smOrder>>

SmInit ==
    /\ \E k \in 0..Len(MdListing) : md_files = SubSeq(MdListing, 1, k)
    /\ sumDir \in SUBSET Range(MdListing)
    /\ sumAtStart = sumDir
    /\ smIdx = 1
    /\ smInvoked = {}
    /\ smOk = {}
    /\ smPc = "run"
    /\ smOrder = <<>>

\* the summarize script is not the one running
SmOff ==
    /\ md_files = <<>>
    /\ sumDir = {}
    /\ sumAtStart = {}
    /\ smIdx = 1
    /\ smInvoked = {}
    /\ smOk = {}
    /\ smPc = "off"
    /\ smOrder = <<>>

(***************************************************************************)
(* Specifications                                                          *)
(***************************************************************************)
(***************************************************************************)
(* sanitize_filename on its own: applied to drawn titles                   *)
(***************************************************************************)
\* the characters of the drawn titles
TitleChars == {"\\", "/", "*", "?", ":", "\"", "<", ">", "|", "a", "_"}

Titles == SeqsUpTo(TitleChars, MaxTitleLen)

\* sanitize_filename(title), line 75 of download_pdf
SanApply ==
    /\ stage = "sanitize"
    /\ SanFrame
    /\ sanPc = "title"
    /\ sanitized' = sanitize_filename(title)
    /\ sanPc' = "once"
    /\ UNCHANGED <<title, again, twice>>

\* the same call on the same title
SanRepeat ==
    /\ stage = "sanitize"
    /\ SanFrame
    /\ sanPc = "once"
    /\ again' = sanitize_filename(title)
    /\ sanPc' = "repeated"
    /\ UNCHANGED <<title, sanitized, twice>>

\* sanitize_filename applied to its own result
SanTwice ==
    /\ stage = "sanitize"
    /\ SanFrame
    /\ sanPc = "repeated"
    /\ twice' = sanitize_filename(sanitized)
    /\ sanPc' = "done"
    /\ UNCHANGED <<title, sanitized, again>>

SanInputs ==
    /\ title \in Titles
    /\ sanitized = <<>>
    /\ again = <<>>
    /\ twice = <<>>
    /\ sanPc = "title"

\* sanitize_filename is not called on its own
SanOff ==
    /\ title = <<>>
    /\ sanitized = <<>>
    /\ again = <<>>
    /\ twice = <<>>
    /\ sanPc = "off"

SanInit == stage = "sanitize" /\ DlOff /\ CvOff /\ SmOff /\ PubOff /\ SanInputs

SanNext ==
    \/ SanApply
    \/ SanRepeat
    \/ SanTwice

SpecSan == SanInit /\ [][SanNext]_vars

Init ==
    \/ stage = "download" /\ DlInit /\ CvOff /\ SmOff /\ PubOff /\ SanOff
    \/ stage = "convert" /\ DlOff /\ CvInit /\ SmOff /\ PubOff /\ SanOff
    \/ stage = "summarize" /\ DlOff /\ CvOff /\ SmInit /\ PubOff /\ SanOff
    \/ stage = "republish" /\ DlOff /\ CvOff /\ SmOff /\ PubInit /\ SanOff

Next ==
    \/ FetchRequest
    \/ \E ok \in BOOLEAN : FetchResponse(ok)
    \/ FetchPause
    \/ \E i \in Tasks : DlTake(i)
    \/ \E i \in Tasks : DlStart(i)
    \/ \E i \in Tasks : DlSend(i)
    \/ \E i \in Tasks, ok \in BOOLEAN : DlReceive(i, ok)
    \/ \E i \in Tasks, ok \in BOOLEAN : DlOpen(i, ok)
    \/ \E i \in Tasks, ok \in BOOLEAN : DlWrite(i, ok)
    \/ \E i \in Tasks : DlLoadSuccess(i)
    \/ \E i \in Tasks : DlStoreSuccess(i)
    \/ \E i \in Tasks : DlLoadFailure(i)
    \/ \E i \in Tasks : DlStoreFailure(i)
    \/ \E i \in Tasks : DlSleep(i)
    \/ DlFinish
    \/ \E i \in CvTasks : CvTake(i)
    \/ \E i \in CvTasks, prepOk \in BOOLEAN : CvStart(i, prepOk)
    \/ \E i \in CvTasks, ok \in BOOLEAN : CvAttempt(i, ok)
    \/ \E i \in CvTasks : CvGiveUp(i)
    \/ CvFinish
    \/ \E res \in SmResults : SmItem(res)
    \/ SmFinish
    \/ SchedStart
    \/ SchedInterrupt
    \/ Relaunch
    \/ PubStart
    \/ \E resp \in Responses : PubItem(resp)
    \/ PubItemReadRaises
    \/ PubSaveOpen
    \/ PubSaveDump
    \/ PubKill

Spec == Init /\ [][Next]_vars

\* the three batch scripts, on the catalogs that are a prefix of Catalog
BatchInit ==
    /\ \/ stage = "download" /\ DlInit /\ CvOff /\ SmOff /\ PubOff /\ SanOff
          /\ \/ \E k \in 0..Len(Catalog) : remote = SubSeq(Catalog, 1, k)
             \/ remote = LongCatalog
       \/ stage = "convert" /\ DlOff /\ CvInit /\ SmOff /\ PubOff /\ SanOff
       \/ stage = "summarize" /\ DlOff /\ CvOff /\ SmInit /\ PubOff /\ SanOff

BatchNext ==
    \/ FetchRequest
    \/ \E ok \in BOOLEAN : FetchResponse(ok)
    \/ FetchPause
    \/ \E i \in Tasks : DlTake(i)
    \/ \E i \in Tasks : DlStart(i)
    \/ \E i \in Tasks : DlSend(i)
    \/ \E i \in Tasks, ok \in BOOLEAN : DlReceive(i, ok)
    \/ \E i \in Tasks, ok \in BOOLEAN : DlOpen(i, ok)
    \/ \E i \in Tasks, ok \in BOOLEAN : DlWrite(i, ok)
    \/ \E i \in Tasks : DlLoadSuccess(i)
    \/ \E i \in Tasks : DlStoreSuccess(i)
    \/ \E i \in Tasks : DlLoadFailure(i)
    \/ \E i \in Tasks : DlStoreFailure(i)
    \/ \E i \in Tasks : DlSleep(i)
    \/ DlFinish
    \/ \E i \in CvTasks : CvTake(i)
    \/ \E i \in CvTasks, prepOk \in BOOLEAN : CvStart(i, prepOk)
    \/ \E i \in CvTasks, ok \in BOOLEAN : CvAttempt(i, ok)
    \/ \E i \in CvTasks : CvGiveUp(i)
    \/ CvFinish
    \/ \E res \in SmResults : SmItem(res)
    \/ SmFinish

\* the batch scripts with every thread that can take a step eventually
\* scheduled: the main thread and the pool workers are ordinary OS threads
FairBatchSpec == BatchInit /\ [][BatchNext]_vars /\ WF_vars(BatchNext)

SelInit == stage = "select" /\ DlOff /\ CvOff /\ SmOff /\ SelInputs /\ SanOff

SelNext == SelApply

SpecSel == SelInit /\ [][SelNext]_vars

(***************************************************************************)
(* Properties                                                              *)
(***************************************************************************)
\* the position of a file in the listing of SUMMARIES_FOLDER
Pos(f) == CHOOSE i \in 1..Len(SummaryFiles) : SummaryFiles[i] = f

\* the number of places of text where keyword occurs, case ignored
Occurrences(keyword, text) ==
    Cardinality({p \in 1..Len(text) :
        /\ p + Len(keyword) - 1 <= Len(text)
        /\ \A j \in 1..Len(keyword) : LowerChar(text[p + j - 1]) = LowerChar(keyword[j])})

RECURSIVE SumOccurrences(_, _)
SumOccurrences(text, k) ==
    IF k = 0 THEN 0
    ELSE Occurrences(KEYWORDS[k], text) + SumOccurrences(text, k - 1)

\* C1: in the download, convert and summarize stages, an item whose output
\* file exists when the batch starts never has its action (HTTP download,
\* conversion attempt, LLM call) invoked during the run, and a download
\* candidate in that case is counted as a success.
C1_ExistingOutputNotRedone ==
    /\ \A i \in Tasks :
          (Eligible(all_papers[i]) /\ PdfName(all_papers[i]) \in pdfAtStart)
          => /\ dlGets[i] = 0
             /\ tpc[i] = "done" => dlOutcome[i] = "skipped"
    /\ \A i \in CvTasks : MdName(pdf_files[i]) \in mdAtStart => attempt[i] = 0
    /\ \A f \in sumAtStart : f \notin smInvoked

\* C2: starting from an empty ledger, every name in the persisted ledger
\* file had a publish call answered with HTTP status 200 and body code 200.
C2_LedgerOnlyAcknowledged ==
    ledger.exists => Range(ledger.data) \subseteq acked

\* C2 witness: a ledger was saved with a name in it while another file's
\* publish calls all failed and stayed out of it.
C2_Witness ==
    /\ stage = "republish"
    /\ pubPc = "idle"
    /\ ledger.valid
    /\ Range(ledger.data) # {}
    /\ (tried \ acked) # {}
    /\ (tried \ acked) \cap Range(ledger.data) = {}

\* C3: after runs that each returned or aborted without the process being
\* killed, the persisted ledger equals the set of all acknowledged names.
C3_LedgerEqualsAcknowledged ==
    (stage = "republish" /\ pubPc = "idle" /\ ~killed)
    => load_processed_files(ledger) = acked

\* C4: between runs, also after a run that was killed, the ledger is
\* loadable and holds every name persisted by an earlier completed run.
C4_LedgerNeverShrinks ==
    (stage = "republish" /\ pubPc = "idle")
    => /\ ~LoadRaises(ledger)
       /\ durable \subseteq load_processed_files(ledger)

\* C5: in every stage a run that was not killed has processed every
\* candidate it selected and reached its end-of-batch step, whatever
\* exception an item raised.
C5_ExceptionNeverAbortsBatch ==
    /\ (stage = "republish" /\ pubPc = "idle" /\ ~killed)
       => /\ runTried = Range(runSel)
          /\ runSel # <<>> => runSaved
    /\ mainPc = "done" => \A i \in Tasks : dlOutcome[i] # "none"
    /\ cvMain = "done" => \A i \in CvTasks : cvResult[i] # "none"
    /\ smPc = "done" => smIdx > Len(md_files)

\* C6: at the end of a download batch, in both modes, success_count is the
\* number of skipped or downloaded candidates and failure_count the number
\* of candidates whose action raised.
C6_CountersExact ==
    mainPc = "done"
    => /\ success_count =
            Cardinality({i \in Tasks : dlOutcome[i] \in {"skipped", "downloaded"}})
       /\ failure_count = Cardinality({i \in Tasks : dlOutcome[i] = "failed"})

\* C7: in the download and summarize stages a file exists at a canonical
\* output path only if it was there before the run or the action for it
\* completed successfully.
C7_FileOnlyIfActionSucceeded ==
    /\ \A f \in pdfDir : f \in pdfAtStart \/ f \in dlOk
    /\ \A f \in sumDir : f \in sumAtStart \/ f \in smOk

\* C8: convert_pdf_to_md makes at most max_retries attempts, none after the
\* first successful one, ends as a success exactly when an attempt
\* succeeded, as a failure exactly when max_retries attempts all failed, and
\* raises nothing once an attempt was made.
C8_RetryBudget ==
    \A i \in CvTasks :
        /\ attempt[i] <= max_retries
        /\ Len(cvLog[i]) = attempt[i]
        /\ \A k \in 1..(Len(cvLog[i]) - 1) : ~cvLog[i][k]
        /\ cvResult[i] = "raised" => attempt[i] = 0
        /\ cvResult[i] = "success" <=> (\E k \in 1..Len(cvLog[i]) : cvLog[i][k])
        /\ cvResult[i] = "failure" <=>
              /\ cvPc[i] = "done"
              /\ Len(cvLog[i]) = max_retries
              /\ \A k \in 1..Len(cvLog[i]) : ~cvLog[i][k]

\* C8 witness: one file converted on its third attempt after two failures
\* and another file given up after max_retries failures.
C8_Witness ==
    \E i, j \in CvTasks :
        /\ cvLog[i] = <<FALSE, FALSE, TRUE>>
        /\ cvResult[i] = "success"
        /\ Len(cvLog[j]) = max_retries
        /\ cvResult[j] = "failure"

\* C9: get_priority_files returns min(n, number of unprocessed files) files,
\* all unprocessed and distinct, by descending score with listing order
\* among equal scores, and every file left out ranks after every file
\* returned (so zero-score files fill the list up).
C9_TopNStable ==
    pubPc = "selected" =>
        LET avail == Files \ processed_files
            res == priority_files
            Before(f, g) ==
                \/ keyword_priority[f] > keyword_priority[g]
                \/ keyword_priority[f] = keyword_priority[g] /\ Pos(f) < Pos(g)
        IN /\ Len(res) = Min(n, Cardinality(avail))
           /\ Range(res) \subseteq avail
           /\ \A i, j \in 1..Len(res) : i < j => Before(res[i], res[j])
           /\ \A f \in Range(res), g \in avail \ Range(res) : Before(f, g)

\* C9 witness: scores [f1: 2, f2: 0, f3: 1] with n = 2 gave [f1, f3].
C9_Witness ==
    /\ pubPc = "selected"
    /\ processed_files = {}
    /\ n = 2
    /\ keyword_priority = [f \in Files |->
                             IF f = "f1.md" THEN 2 ELSE IF f = "f2.md" THEN 0 ELSE 1]
    /\ priority_files = <<"f1.md", "f3.md">>

\* C10 as stated: the score of a candidate is the total number of
\* case-insensitive occurrences of the keywords in its content.
C10_ScoreCountsOccurrences ==
    pubPc = "selected" =>
        \A f \in DOMAIN keyword_priority :
            keyword_priority[f] = SumOccurrences(content[f], Len(KEYWORDS))

\* C10 amended: the score of a candidate is the number of keywords that
\* occur at least once, case ignored, in its content.
C10_ScoreCountsKeywords ==
    pubPc = "selected" =>
        \A f \in DOMAIN keyword_priority :
            keyword_priority[f] =
                Cardinality({k \in 1..Len(KEYWORDS) :
                                Occurrences(KEYWORDS[k], content[f]) >= 1})

\* C10 witness: a text with two occurrences of one keyword, in different
\* cases, scored 1.
C10_Witness ==
    /\ pubPc = "selected"
    /\ \E f \in DOMAIN keyword_priority :
          /\ content[f] = <<"b", "B">>
          /\ keyword_priority[f] = 1

\* the events of the catalog log of one kind, in order
LogOf(kind) == SubList(catLog, {k \in 1..Len(catLog) : catLog[k].ev = kind}, 1)

\* the concatenation of the pages of a list of answers
RECURSIVE ConcatPages(_, _)
ConcatPages(answers, k) ==
    IF k = 0 THEN <<>> ELSE ConcatPages(answers, k - 1) \o answers[k].items

\* the paging loop of main is over
PagingOver == mainPc \in {"run", "done"}

\* C11, safety part: the k-th request asks offset (k-1)*P, every answer
\* holds the records at its offset, nothing follows an answer that is short
\* or failed, a full answer is followed by more paging, and all_papers is
\* the concatenation of the answers (the whole catalog if none failed).
C11_PagingInv ==
    stage = "download" =>
        LET requests == LogOf("request")
            answers == LogOf("answer")
            P == MAX_RESULTS
        IN /\ \A k \in 1..Len(requests) : requests[k].off = (k - 1) * P
           /\ Len(answers) <= Len(requests)
           /\ \A k \in 1..Len(answers) :
                 /\ answers[k].off = requests[k].off
                 /\ answers[k].ok =>
                       answers[k].items =
                          [j \in 1..Min(P, Len(remote) - Min(answers[k].off, Len(remote)))
                              |-> remote[answers[k].off + j]]
                 /\ ~answers[k].ok => answers[k].items = <<>>
           /\ \A k \in 1..Len(catLog) :
                 (catLog[k].ev = "answer" /\ Len(catLog[k].items) < P)
                 => (k = Len(catLog) /\ PagingOver)
           /\ \A k \in 1..Len(catLog) :
                 (catLog[k].ev = "answer" /\ Len(catLog[k].items) = P /\ k = Len(catLog))
                 => mainPc = "pause"
           /\ all_papers = ConcatPages(answers, Len(answers))
           /\ (PagingOver /\ \A k \in 1..Len(answers) : answers[k].ok)
              => all_papers = remote
           /\ Len(requests) <= (Len(remote) \div P) + 1

\* C11: the paging loop requests offsets 0, P, 2P, ... in order, stops right
\* after the first short or failed page, returns the concatenation of the
\* pages received, and terminates.
C11_Paging ==
    /\ []C11_PagingInv
    /\ <>(stage = "download" => PagingOver)

\* several pages were requested, the last one was short and not empty, and
\* the loop ended with the whole catalog
C11_ShortLastPage ==
    /\ mainPc = "run"
    /\ Len(LogOf("request")) >= 2
    /\ catLog[Len(catLog)].ev = "answer"
    /\ catLog[Len(catLog)].items # <<>>
    /\ Len(catLog[Len(catLog)].items) < MAX_RESULTS
    /\ all_papers = remote

\* C11 witness: two full pages were received, a third request at offset 2P
\* was answered by an empty page, and the loop ended with the whole catalog.
C11_Witness ==
    /\ mainPc = "run"
    /\ Len(LogOf("request")) >= 3
    /\ LogOf("request")[3].off = 2 * MAX_RESULTS
    /\ catLog[Len(catLog)].ev = "answer"
    /\ catLog[Len(catLog)].ok
    /\ Len(catLog[Len(catLog)].items) < MAX_RESULTS
    /\ Len(all_papers) >= 2 * MAX_RESULTS
    /\ all_papers = remote

\* positions of download_pdf between the test of line 80 and the end of the
\* write of line 90
Fetching == {"get", "wait", "open", "write"}

\* C14: in worker-pool mode two different candidates of a run never have the
\* same output path: they are never both inside the download-and-write part
\* and a file name is not requested twice.
C14_DistinctOutputPaths ==
    ~single =>
        \A i, j \in Tasks :
            (i # j /\ PdfName(all_papers[i]) = PdfName(all_papers[j]))
            => /\ ~(tpc[i] \in Fetching /\ tpc[j] \in Fetching)
               /\ dlGets[i] + dlGets[j] <= 1

\* calls of download_pdf that are between their start and their return
InProgress ==
    {i \in Tasks : tpc[i] \in {"taken", "get", "wait", "open", "write",
                                "s_load", "s_store", "f_load", "f_store"}}

\* C15: at most THREAD_COUNT (max_workers) actions are in progress in
\* worker-pool mode and at most one in sequential mode, where the papers are
\* taken in enumeration order, each followed by the inter-item sleep.
C15_BoundedConcurrency ==
    /\ Cardinality(InProgress) <= (IF single THEN 1 ELSE THREAD_COUNT)
    /\ Cardinality({i \in 1..Len(pdf_files) : cvPc[i] \in {"taken", "running"}})
          <= max_workers
    /\ single =>
          /\ \A k \in 1..Len(dlOrder) :
                dlOrder[k] = IF k % 2 = 1 THEN (k + 1) \div 2 ELSE 0
          /\ mainPc = "done" => Len(dlOrder) = 2 * Len(all_papers)

\* the download pool is full while a further paper waits in the queue
C15_DownloadPoolFull ==
    /\ stage = "download"
    /\ ~single
    /\ Cardinality(InProgress) = THREAD_COUNT
    /\ \E i \in Tasks : tpc[i] = "queued"

\* the single-threaded loop is inside download_pdf for the second paper
\* while a third waits
C15_SequentialBusy ==
    /\ stage = "download"
    /\ single
    /\ Cardinality(InProgress) = 1
    /\ Len(dlOrder) = 3
    /\ \E i \in Tasks : tpc[i] = "queued"

\* C15 witness: every worker of the conversion pool is inside
\* convert_pdf_to_md, one of them for a file taken after an earlier call
\* returned, while a further file waits in the queue.
C15_Witness ==
    /\ stage = "convert"
    /\ Cardinality({i \in CvTasks : cvPc[i] = "running"}) = max_workers
    /\ \E i \in CvTasks : cvPc[i] = "done"
    /\ \E i \in CvTasks : cvPc[i] = "queued"

\* C17, state part: at most one catalog request is in flight, every request
\* but the first comes right after a pause, and once a download has begun
\* the paging is over with no request in flight.
C17_SerializedInv ==
    /\ inFlight <= 1
    /\ \A k \in 2..Len(catLog) :
          catLog[k].ev = "request" => catLog[k - 1].ev = "pause"
    /\ \A k \in 1..Len(catLog) :
          (catLog[k].ev = "request" /\ k < Len(catLog)) => catLog[k + 1].ev = "answer"
    /\ dlOrder # <<>> => (PagingOver /\ inFlight = 0)

\* C17: catalog requests are serialized, separated by the inter-request
\* pause, and none is issued once the download workers have started.
C17_SerializedRateLimited ==
    /\ []C17_SerializedInv
    /\ [][dlOrder # <<>> => catLog' = catLog]_vars

\* C17 witness: two pages were requested with a pause in between and a
\* download has begun.
C17_Witness ==
    /\ Len(LogOf("request")) >= 2
    /\ Len(LogOf("pause")) >= 1
    /\ dlOrder # <<>>

\* a record that is not a full paper, has no link, or links elsewhere than
\* the preprint host
Ineligible(paper) ==
    \/ paper.type # "Conference and Workshop Papers"
    \/ paper.ee = <<>>
    \/ Netloc(paper.ee) # <<"o", "p", "e", "n", "r", "e", "v", "i", "e", "w", ".", "n", "e", "t">>

\* C19, state part: an ineligible record never reaches the request, never
\* counts, and no file carries its name.
C19_IneligibleInv ==
    /\ \A i \in Tasks :
          Ineligible(all_papers[i]) =>
             /\ dlGets[i] = 0
             /\ tpc[i] \in {"queued", "taken", "sleep", "done"}
             /\ dlOutcome[i] \in {"none", "ineligible"}
             /\ PdfName(all_papers[i]) \notin pdfDir
    /\ success_count + failure_count
          <= Cardinality({i \in Tasks : ~Ineligible(all_papers[i])})

\* C19: an ineligible catalog record causes no download request, creates no
\* file and leaves success_count and failure_count unchanged.
C19_IneligibleNoEffect ==
    /\ []C19_IneligibleInv
    /\ [][\A i \in Tasks :
            (Ineligible(all_papers[i]) /\ tpc[i] = "queued" /\ tpc'[i] # "queued")
            => UNCHANGED <<pdfDir, success_count, failure_count, dlGets>>]_vars

\* the number of times x occurs in a list
Count(list, x) == Cardinality({k \in 1..Len(list) : list[k] = x})

\* C13, safety part: no candidate is started twice.
C13_AtMostOnce ==
    /\ \A i \in 1..Len(all_papers) : Count(dlOrder, i) <= 1
    /\ \A i \in 1..Len(pdf_files) : Count(cvOrder, i) <= 1
    /\ \A i \in 1..Len(md_files) : Count(smOrder, md_files[i]) <= 1

\* C13: every download, conversion and summarize batch ends with its
\* completion report after having started every candidate exactly once.
C13_BatchTerminates ==
    /\ []C13_AtMostOnce
    /\ <>(\/ /\ stage = "download"
              /\ mainPc = "done"
              /\ \A i \in 1..Len(all_papers) : Count(dlOrder, i) = 1
           \/ /\ stage = "convert"
              /\ cvMain = "done"
              /\ \A i \in 1..Len(pdf_files) : Count(cvOrder, i) = 1
           \/ /\ stage = "summarize"
              /\ smPc = "done"
              /\ smOrder = md_files)

\* C13 witness: a worker-pool download batch ended in which every paper
\* failed.
C13_Witness ==
    /\ mainPc = "done"
    /\ ~single
    /\ Len(all_papers) >= 2
    /\ \A i \in Tasks : dlOutcome[i] = "failed"

\* the names a ledger file gives to a run that loads it
NamesOf(file) == IF file.exists /\ file.valid THEN Range(file.data) ELSE {}

\* C12: a republish run that ended without being killed and in which no
\* publish call was acknowledged leaves the ledger as loadable as it was,
\* with the same set of names.
C12_AllFailLeavesLedger ==
    (stage = "republish" /\ runEnd \in {"returned", "raised"} /\ runAcked = {})
    => /\ NamesOf(ledger) = NamesOf(runStart)
       /\ LoadRaises(ledger) = LoadRaises(runStart)

\* C12 witness: the ledger held a name, a later run selected files, every
\* publish call failed, and the run saved the ledger.
C12_Witness ==
    /\ stage = "republish"
    /\ runEnd = "returned"
    /\ NamesOf(runStart) # {}
    /\ runSel # <<>>
    /\ runTried = Range(runSel)
    /\ runAcked = {}
    /\ runSaved

\* C18: a name that was in the persisted ledger at the start of a run is
\* neither selected nor handed to call_api in that run or a later one.
C18_LedgeredNeverResent ==
    /\ Range(runSel) \cap startNames = {}
    /\ runTried \cap startNames = {}

\* C18 witness: with one file per run, the third run started from a ledger
\* that holds the name ledgered by the first run and the name added by the
\* second, and published another file.
C18_Witness ==
    /\ stage = "republish"
    /\ n = 1
    /\ runs = 3
    /\ Cardinality(NamesOf(runStart)) = 2
    /\ startNames = NamesOf(runStart)
    /\ runTried # {}
    /\ runAcked # {}

\* a run was killed while it saved, after a run that had ledgered a name,
\* and a later run started from the file it left
C18_AfterKill ==
    /\ stage = "republish"
    /\ runs = 3
    /\ killed
    /\ startNames # {}
    /\ runEnd = "raised"
    /\ LoadRaises(runStart)

\* C20, state part: no run before the scheduler blocks, one run when the
\* debug call has returned, and scheduled mode returns only on an interrupt.
C20_TriggerInv ==
    stage = "republish" =>
        /\ schedPc = "init" => launchRuns = 0
        /\ (debug /\ schedPc = "running") => launchRuns = 1
        /\ (debug /\ schedPc = "returned") => launchRuns = 1
        /\ (~debug /\ schedPc = "returned") => interrupted

\* C20: debug mode runs process_files once and returns; scheduled mode runs
\* it only while the scheduler blocks, returns only on an interrupt, and
\* starts no run after it returned.
C20_Trigger ==
    /\ []C20_TriggerInv
    /\ [][(runs' # runs /\ ~debug) => (schedPc = "blocked" /\ schedPc' = "blocked")]_vars
    /\ [][(schedPc = "returned" /\ schedPc' = "returned") => runs' = runs]_vars

\* C20 witness: in scheduled mode the job ran twice, then the interrupt made
\* schedule_task return.
C20_Witness ==
    /\ ~debug
    /\ schedPc = "returned"
    /\ interrupted
    /\ launchRuns = 2

\* C16: sanitize_filename replaces each of \ / * ? : " < > | by _ and keeps
\* every other character, so the result has the length of the title and none
\* of the nine characters; a repeated call gives the same result and a
\* second application changes nothing.
C16_SanitizePure ==
    (stage = "sanitize" /\ sanPc = "done") =>
        LET nine == {"\\", "/", "*", "?", ":", "\"", "<", ">", "|"}
        IN /\ Len(sanitized) = Len(title)
           /\ \A i \in 1..Len(title) :
                 sanitized[i] = IF title[i] \in nine THEN "_" ELSE title[i]
           /\ \A i \in 1..Len(sanitized) : sanitized[i] \notin nine
           /\ again = sanitized
           /\ twice = sanitized

\* C16 witness: a title holding a backslash and an ordinary character went
\* through the three calls.
C16_Witness ==
    /\ stage = "sanitize"
    /\ sanPc = "done"
    /\ title = <<"\\", "a">>
    /\ sanitized = <<"_", "a">>

====
